---- MODULE Spec2Model ----
(***************************************************************************)
(* build_duckdb.py: the batch build of the Fact Store connectly_slim.duckdb *)
(* from the dispatch shards, the activity shards and the business->product  *)
(* map.  The script is a straight line of statements; every statement is    *)
(* one step, so that the file OUT_DB is visible between any two of them.    *)
(*                                                                         *)
(* A table is a bag of rows (SQL tables are multisets): a function from the *)
(* distinct rows to their multiplicities, as in the Bags module.            *)
(* A date is a pair <<month, day>>; DATE_TRUNC('month', d) is <<d[1], 1>>.   *)
(* Percentages and rates (ROUND(x, 1)) are integers counting tenths.        *)
(***************************************************************************)
EXTENDS Integers, FiniteSets, Sequences, Bags, TLC

VARIABLES
    raw_camp,   \* the files matching RAW_CAMP: [exists, rows (a bag)]
    raw_act,    \* the files matching RAW_ACT: [exists, rows (a bag)]
    map_file,   \* the file MAP_FILE: [exists, rows (a bag)]
    out_db,     \* the file OUT_DB: [exists, tables (name -> bag of rows)]
    pc,         \* the statement the script is at, or "idle", "done", "failed"
    published   \* ghost: OUT_DB as the last successful build left it

vars == <<raw_camp, raw_act, map_file, out_db, pc, published>>

NULL == "NULL"

\* ------------------------------------------------------------ bounds
MaxRows == 3        \* dispatch rows in the shards
MaxDays == 11       \* distinct activity days of a user in a month and product
MaxRateRows == 2    \* dispatch rows in the shards of SpecRates

\* ------------------------------------------------------------ SQL helpers
\* A nullable integer is <<>> (NULL) or <<n>>; NAN is the IEEE 754 result 0.0/0.
\* A nullable string is NULL or the string.
NULLINT == <<>>
NAN == <<"NaN", "NaN">>
Val(n) == <<n>>
IsNum(x) == Len(x) = 1

\* COUNT(*) of a table
CountRows(T) == BagCardinality(T)

\* the rows S of T, multiplicities kept (WHERE / FILTER keep the rows S that
\* satisfy the condition)
Where(T, S) == [r \in S |-> T[r]]

\* COUNT(DISTINCT e) where V is the set of values of e: NULL is not counted
CountDistinct(V) == Cardinality(V \ {NULL})

\* L LEFT JOIN R, where M is the set of pairs <<l, r>> satisfying the join
\* condition: a row <<l, <<r>>>> per match, and <<l, <<>>>> for a row of L
\* that matches nothing
LeftJoin(L, R, M) ==
    LET keep == {<<l, <<>>>> : l \in {x \in DOMAIN L : \A r \in DOMAIN R : <<x, r>> \notin M}}
                \cup {<<p[1], <<p[2]>>>> : p \in M}
    IN  [p \in keep |-> IF p[2] = <<>> THEN L[p[1]] ELSE L[p[1]] * R[p[2][1]]]

\* a = b as a join condition on nullable strings: NULL equals nothing
SqlEq(a, b) == a # NULL /\ b # NULL /\ a = b

\* DATE_TRUNC('month', d)::DATE of a date <<month, day>>
DateTruncMonth(d) == <<d[1], 1>>

\* a + b on nullable integers: NULL when either operand is NULL
SqlAdd(a, b) == IF a = NULLINT \/ b = NULLINT THEN NULLINT ELSE Val(a[1] + b[1])

\* COALESCE(a, b)
Coalesce(a, b) == IF a # NULL THEN a ELSE b
CoalesceInt(a, n) == IF a # NULLINT THEN a[1] ELSE n

\* e > 0 used as a condition: a comparison with NULL is not true
IsPositive(e) == e # NULLINT /\ e[1] > 0

\* the sum of a bag of integers
RECURSIVE SumBag(_)
SumBag(V) ==
    IF DOMAIN V = {} THEN 0
    ELSE LET v == CHOOSE x \in DOMAIN V : TRUE
         IN  v * V[v] + SumBag([x \in DOMAIN V \ {v} |-> V[x]])

\* SUM(e) where V is the bag of values of e: NULLs skipped, NULL when no
\* value is left
SqlSum(V) ==
    LET vals == BagOfAll(LAMBDA v : v[1], Where(V, DOMAIN V \ {NULLINT}))
    IN  IF DOMAIN vals = {} THEN NULLINT ELSE Val(SumBag(vals))

\* ROUND(k * 100.0 / n, 1) in tenths, halves away from zero; a zero divisor
\* gives dz, what the engine returns for x / 0: NULL, or NaN when the engine
\* divides by IEEE 754 rules
RoundPct(k, n, dz) == IF n = 0 THEN dz ELSE Val((2000 * k + n) \div (2 * n))

DivZeroResults == {NULLINT, NAN}

\* ROUND(x) of x = num / den >= 0, halves away from zero
RoundDiv(num, den) == (2 * num + den) \div (2 * den)

\* ------------------------------------------------------------ the tables
\* SELECT f(row) FROM T is the image bag BagOfAll(f, T).

\* 1. camp_raw: the dispatch shards, columns renamed and cast
CampRaw(shards) ==
    BagOfAll(LAMBDA r :
        [user |-> r.customer_external_id,
         business_id |-> r.business_id,
         sendout_name |-> r.sendout_name,
         dispatched_at |-> r.dispatched_at,
         delivered |-> r.delivered,
         button_responses |-> r.button_responses,
         link_clicks |-> r.link_clicks], shards)

\* 2. product_map: the map file
ProductMap(file) ==
    BagOfAll(LAMBDA r : [business_id |-> r.business_id, product |-> r.product], file)

\* clicks of a camp_raw row
Clicks(cr) == SqlAdd(cr.button_responses, cr.link_clicks)

\* product of a camp_raw row joined to p, <<>> or <<a product_map row>>
Product(p) == Coalesce(IF p = <<>> THEN NULL ELSE p[1].product, "Unknown")

\* 3. camp: camp_raw LEFT JOIN product_map USING (business_id)
Camp(cr_t, pm_t) ==
    BagOfAll(LAMBDA j :
        [month |-> DateTruncMonth(j[1].dispatched_at),
         product |-> Product(j[2]),
         sendout_name |-> j[1].sendout_name,
         user |-> j[1].user,
         delivered |-> (j[1].delivered # NULL),
         clicks |-> Clicks(j[1])],
        LeftJoin(cr_t, pm_t, {x \in (DOMAIN cr_t) \X (DOMAIN pm_t) :
                                 SqlEq(x[1].business_id, x[2].business_id)}))

\* 4. act: the activity shards
Act(shards) ==
    BagOfAll(LAMBDA r :
        [user |-> r.user_phone,
         product |-> r.product,
         activity_date |-> r.activity_date,
         month |-> DateTruncMonth(r.activity_date)], shards)

\* 5. monthly_metrics: GROUP BY month
MonthlyRow(g, dz) ==
    LET sent == CountRows(g)
        delivered == CountRows(Where(g, {r \in DOMAIN g : r.delivered}))
    IN  [sent |-> sent,
         delivered |-> delivered,
         delivery_rate |-> RoundPct(delivered, sent, dz),
         meta_cost |-> RoundDiv(delivered * 96 * 107 + delivered * 4 * 14, 1000000),
         connectly_cost |-> RoundDiv(delivered * 90 * 123 + 500 * 1000000, 1000000)]

MonthlyMetrics(camp_t, dz) ==
    SetToBag({ [month |-> m]
               @@ MonthlyRow(Where(camp_t, {r \in DOMAIN camp_t : r.month = m}), dz)
               : m \in {r.month : r \in DOMAIN camp_t} })

\* CASE WHEN c THEN user END
UserWhen(c, user) == IF c THEN user ELSE NULL

\* 6. funnel_by_product: WHERE product <> 'Unknown' GROUP BY month, product
FunnelRow(g, dz) ==
    LET sent == CountDistinct({r.user : r \in DOMAIN g})
        delivered == CountDistinct({UserWhen(r.delivered, r.user) : r \in DOMAIN g})
        clicked == CountDistinct({UserWhen(IsPositive(r.clicks), r.user) : r \in DOMAIN g})
    IN  [sent |-> sent,
         delivered |-> delivered,
         clicked |-> clicked,
         delivery_rate |-> RoundPct(delivered, sent, dz),
         click_rate |-> RoundPct(clicked, sent, dz)]

FunnelSource(camp_t) == Where(camp_t, {r \in DOMAIN camp_t : r.product # "Unknown"})

FunnelByProduct(camp_t, dz) ==
    LET src == FunnelSource(camp_t)
    IN  SetToBag({ [month |-> k[1], product |-> k[2]]
                   @@ FunnelRow(Where(src, {r \in DOMAIN src :
                                              <<r.month, r.product>> = k}), dz)
                   : k \in {<<r.month, r.product>> : r \in DOMAIN src} })

\* act_days / activity_seg: COUNT(DISTINCT activity_date) GROUP BY user, month, product
ActDays(act_t) ==
    SetToBag({ [user |-> k[1], month |-> k[2], product |-> k[3],
                days |-> Cardinality({r.activity_date : r \in
                           {x \in DOMAIN act_t : <<x.user, x.month, x.product>> = k}})]
               : k \in {<<r.user, r.month, r.product>> : r \in DOMAIN act_t} })

\* the join condition on (user, month, product)
SameUserMonthProduct(n, a) ==
    /\ SqlEq(n.user, a.user)
    /\ n.month = a.month
    /\ SqlEq(n.product, a.product)

\* T LEFT JOIN act_days on (user, month, product)
JoinActDays(T, days_t) ==
    LeftJoin(T, days_t, {x \in (DOMAIN T) \X (DOMAIN days_t) :
                            SameUserMonthProduct(x[1], x[2])})

\* a.days of a joined row, NULL when nothing matched
JoinedDays(a) == IF a = <<>> THEN NULLINT ELSE Val(a[1].days)

\* the CASE with the upper end of '1-10' left out (days BETWEEN 1 AND 9)
ActiveBucket_UpTo9(days) ==
    IF CoalesceInt(days, 0) = 0 THEN "0"
    ELSE IF days # NULLINT /\ days[1] >= 1 /\ days[1] < 10 THEN "1-10"
    ELSE ">10"

\* the CASE of nudge_vs_activity
ActiveBucket(days) ==
    IF CoalesceInt(days, 0) = 0 THEN "0"
    ELSE IF days # NULLINT /\ days[1] >= 1 /\ days[1] <= 10 THEN "1-10"
    ELSE ">10"

\* 7. nudge_vs_activity
Nudged(camp_t) ==
    SetToBag({[month |-> r.month, product |-> r.product, user |-> r.user]
                : r \in DOMAIN camp_t})

NudgeVsActivity(camp_t, act_t) ==
    LET j == BagOfAll(LAMBDA p : [month |-> p[1].month, product |-> p[1].product,
                                  active_bucket |-> ActiveBucket(JoinedDays(p[2]))],
                      JoinActDays(Nudged(camp_t), ActDays(act_t)))
    IN  SetToBag({ [month |-> k.month, product |-> k.product,
                    active_bucket |-> k.active_bucket, users |-> j[k]]
                   : k \in DOMAIN j })

\* 8. campaign_perf
Segmented(camp_t, act_t) ==
    BagOfAll(LAMBDA p :
        [month |-> p[1].month, product |-> p[1].product,
         sendout_name |-> p[1].sendout_name, user |-> p[1].user,
         delivered |-> p[1].delivered, clicks |-> p[1].clicks,
         days |-> CoalesceInt(JoinedDays(p[2]), 0)],
        JoinActDays(camp_t, ActDays(act_t)))

\* the three percentage columns of a group
InactivePct(g, dz) ==
    RoundPct(CountRows(Where(g, {r \in DOMAIN g : r.days = 0})), CountRows(g), dz)

\* active_pct with days BETWEEN 1 AND 9
ActivePct_UpTo9(g, dz) ==
    RoundPct(CountRows(Where(g, {r \in DOMAIN g : r.days >= 1 /\ r.days < 10})),
             CountRows(g), dz)

ActivePct(g, dz) ==
    RoundPct(CountRows(Where(g, {r \in DOMAIN g : r.days >= 1 /\ r.days <= 10})),
             CountRows(g), dz)

HighPct(g, dz) ==
    RoundPct(CountRows(Where(g, {r \in DOMAIN g : r.days > 10})), CountRows(g), dz)

CampaignRow(g, dz) ==
    [sent |-> CountDistinct({r.user : r \in DOMAIN g}),
     delivered |-> CountDistinct({UserWhen(r.delivered, r.user) : r \in DOMAIN g}),
     clicks |-> SqlSum(BagOfAll(LAMBDA r : r.clicks, g)),
     inactive_pct |-> InactivePct(g, dz),
     active_pct |-> ActivePct(g, dz),
     high_pct |-> HighPct(g, dz)]

CampaignPerf(camp_t, act_t, dz) ==
    LET seg == Segmented(camp_t, act_t)
    IN  SetToBag({ [month |-> k[1], product |-> k[2], sendout_name |-> k[3]]
                   @@ CampaignRow(Where(seg, {r \in DOMAIN seg :
                                    <<r.month, r.product, r.sendout_name>> = k}), dz)
                   : k \in {<<r.month, r.product, r.sendout_name>> : r \in DOMAIN seg} })

\* ------------------------------------------------------------ the files
NoTables == [n \in {} |-> EmptyBag]
NoFile == [exists |-> FALSE, tables |-> NoTables]
Missing == [exists |-> FALSE, rows |-> EmptyBag]
File(rows) == [exists |-> TRUE, rows |-> rows]

OutputTables == {"monthly_metrics", "funnel_by_product", "nudge_vs_activity", "campaign_perf"}

Table(n) == out_db.tables[n]
HasTable(n) == out_db.exists /\ n \in DOMAIN out_db.tables

\* CREATE TABLE n AS t, committed to the file
CreateTable(n, t) ==
    out_db' = [out_db EXCEPT !.tables = [x \in DOMAIN out_db.tables \cup {n} |->
                                           IF x = n THEN t ELSE out_db.tables[x]]]

\* DROP TABLE IF EXISTS n
DropTableIfExists(n) ==
    out_db' = [out_db EXCEPT !.tables = [x \in DOMAIN out_db.tables \ {n} |->
                                           out_db.tables[x]]]

Inputs == <<raw_camp, raw_act, map_file>>

\* ------------------------------------------------------------ the script
\* lines 10-11: if os.path.exists(OUT_DB): os.remove(OUT_DB)
RemoveOutDb ==
    /\ pc \in {"idle", "done", "failed"}
    /\ out_db' = NoFile
    /\ pc' = "connect"
    /\ UNCHANGED <<Inputs, published>>

\* line 12: duckdb.connect(OUT_DB) creates the empty database file
Connect ==
    /\ pc = "connect"
    /\ out_db' = [exists |-> TRUE, tables |-> NoTables]
    /\ pc' = "camp_raw"
    /\ UNCHANGED <<Inputs, published>>

CreateCampRaw ==
    /\ pc = "camp_raw"
    /\ raw_camp.exists
    /\ CreateTable("camp_raw", CampRaw(raw_camp.rows))
    /\ pc' = "product_map"
    /\ UNCHANGED <<Inputs, published>>

CreateProductMap ==
    /\ pc = "product_map"
    /\ map_file.exists
    /\ CreateTable("product_map", ProductMap(map_file.rows))
    /\ pc' = "camp"
    /\ UNCHANGED <<Inputs, published>>

CreateCamp ==
    /\ pc = "camp"
    /\ CreateTable("camp", Camp(Table("camp_raw"), Table("product_map")))
    /\ pc' = "act"
    /\ UNCHANGED <<Inputs, published>>

CreateAct ==
    /\ pc = "act"
    /\ raw_act.exists
    /\ CreateTable("act", Act(raw_act.rows))
    /\ pc' = "monthly_metrics"
    /\ UNCHANGED <<Inputs, published>>

CreateMonthlyMetrics ==
    /\ pc = "monthly_metrics"
    /\ \E dz \in DivZeroResults :
         CreateTable("monthly_metrics", MonthlyMetrics(Table("camp"), dz))
    /\ pc' = "funnel_by_product"
    /\ UNCHANGED <<Inputs, published>>

CreateFunnelByProduct ==
    /\ pc = "funnel_by_product"
    /\ \E dz \in DivZeroResults :
         CreateTable("funnel_by_product", FunnelByProduct(Table("camp"), dz))
    /\ pc' = "nudge_vs_activity"
    /\ UNCHANGED <<Inputs, published>>

CreateNudgeVsActivity ==
    /\ pc = "nudge_vs_activity"
    /\ CreateTable("nudge_vs_activity", NudgeVsActivity(Table("camp"), Table("act")))
    /\ pc' = "campaign_perf"
    /\ UNCHANGED <<Inputs, published>>

CreateCampaignPerf ==
    /\ pc = "campaign_perf"
    /\ \E dz \in DivZeroResults :
         CreateTable("campaign_perf", CampaignPerf(Table("camp"), Table("act"), dz))
    /\ pc' = "report"
    /\ UNCHANGED <<Inputs, published>>

\* lines 167-168: the table sizes are read and printed
Report ==
    /\ pc = "report"
    /\ \A t \in OutputTables : HasTable(t)
    /\ pc' = "drop_camp_raw"
    /\ UNCHANGED <<Inputs, out_db, published>>

DropStep(at, t, next) ==
    /\ pc = at
    /\ DropTableIfExists(t)
    /\ pc' = next
    /\ UNCHANGED <<Inputs, published>>

DropCampRaw == DropStep("drop_camp_raw", "camp_raw", "drop_camp")
DropCamp == DropStep("drop_camp", "camp", "drop_act")
DropAct == DropStep("drop_act", "act", "drop_product_map")
DropProductMap == DropStep("drop_product_map", "product_map", "close")

\* lines 177-178: the connection is closed and the build has succeeded
Close ==
    /\ pc = "close"
    /\ pc' = "done"
    /\ published' = out_db
    /\ UNCHANGED <<Inputs, out_db>>

\* read_parquet finds no file: the statement raises, nothing catches it and
\* the script ends, OUT_DB left as the statements before it made it
ReadFails ==
    /\ \/ pc = "camp_raw" /\ ~raw_camp.exists
       \/ pc = "product_map" /\ ~map_file.exists
       \/ pc = "act" /\ ~raw_act.exists
    /\ pc' = "failed"
    /\ UNCHANGED <<Inputs, out_db, published>>

\* between two runs of the script an input file disappears
MapFileRemoved ==
    /\ pc = "done"
    /\ map_file.exists
    /\ map_file' = Missing
    /\ UNCHANGED <<raw_camp, raw_act, out_db, pc, published>>

ActShardsRemoved ==
    /\ pc = "done"
    /\ raw_act.exists
    /\ raw_act' = Missing
    /\ UNCHANGED <<raw_camp, map_file, out_db, pc, published>>

Next ==
    \/ RemoveOutDb
    \/ Connect
    \/ CreateCampRaw
    \/ CreateProductMap
    \/ CreateCamp
    \/ CreateAct
    \/ CreateMonthlyMetrics
    \/ CreateFunnelByProduct
    \/ CreateNudgeVsActivity
    \/ CreateCampaignPerf
    \/ Report
    \/ DropCampRaw
    \/ DropCamp
    \/ DropAct
    \/ DropProductMap
    \/ Close
    \/ ReadFails
    \/ MapFileRemoved
    \/ ActShardsRemoved

\* ------------------------------------------------------------ the inputs
UserIds == {"u1", "u2"}

\* the bags of at most n rows drawn from R
RECURSIVE BagsUpTo(_, _)
BagsUpTo(R, n) ==
    IF n = 0 THEN {EmptyBag}
    ELSE LET B == BagsUpTo(R, n - 1)
         IN  B \cup {b (+) SetToBag({r}) : b \in B, r \in R}

\* dispatch rows with each column drawn from the given set
DispatchRows(U, B, S, D, Dl, Bt, Lk) ==
    [customer_external_id : U, business_id : B, sendout_name : S,
     dispatched_at : D, delivered : Dl, button_responses : Bt, link_clicks : Lk]

\* MAP_FILE as shipped: business b1 belongs to product A, b2 has no entry
TheMap == SetToBag({[business_id |-> "b1", product |-> "A"]})

\* activity rows: one per day 1..days[u] of month 1 in product A for user u
\* (day 1 is in two shards), beside rows that match no dispatch of product A
\* in month 1: another product, another month, no user
ActivityRows(days) ==
    [r \in {x \in [user_phone : UserIds, product : {"A"},
                   activity_date : {1} \X (1..MaxDays)]
              : x.activity_date[2] <= days[x.user_phone]}
       |-> IF r.activity_date[2] = 1 THEN 2 ELSE 1]
    (+) SetToBag({[user_phone |-> "u2", product |-> "B", activity_date |-> <<1, 1>>],
                  [user_phone |-> "u2", product |-> "A", activity_date |-> <<2, 1>>],
                  [user_phone |-> NULL, product |-> "A", activity_date |-> <<1, 1>>]})

\* the first user is active on 0..MaxDays days, the second on MaxDays days
ActivityInputs ==
    {ActivityRows(days) : days \in {f \in [UserIds -> 0..MaxDays] : f["u2"] = MaxDays}}

InitWith(campInputs, actInputs, mapInputs) ==
    /\ raw_camp \in {Missing} \cup {File(b) : b \in campInputs}
    /\ raw_act \in {Missing} \cup {File(b) : b \in actInputs}
    /\ map_file \in {Missing} \cup {File(b) : b \in mapInputs}
    /\ out_db = NoFile
    /\ pc = "idle"
    /\ published = NoFile

\* Spec: dispatches that differ in user, business and campaign, against every
\* activity input
SegRows ==
    DispatchRows(UserIds \cup {NULL}, {"b1", "b2"}, {"s1", "s2"}, {<<1, 1>>},
                 {"2025-01-01"}, {Val(0)}, {Val(0)})

Init == InitWith(BagsUpTo(SegRows, MaxRows), ActivityInputs, {TheMap})

Spec == Init /\ [][Next]_vars

\* SpecRates: dispatches that differ in user, campaign, day, delivery and
\* click counters, against one activity input
RateRows ==
    DispatchRows(UserIds \cup {NULL}, {"b1"}, {"s1", "s2"},
                 {<<1, 1>>, <<1, 2>>, <<2, 1>>},
                 {NULL, "2025-01-01"}, {NULLINT, Val(0)}, {NULLINT, Val(5)})

InitRates ==
    InitWith(BagsUpTo(RateRows, MaxRateRows),
             {ActivityRows([u \in UserIds |-> IF u = "u1" THEN 1 ELSE 0])},
             {TheMap})

SpecRates == InitRates /\ [][Next]_vars

\* ------------------------------------------------------------ the claims
Running == pc \notin {"idle", "done", "failed"}

\* the distinct activity days of user u in month m and product p, counted on
\* the rows of act
DirectDays(u, m, p) ==
    Cardinality({a.activity_date : a \in {x \in DOMAIN Table("act") :
                    x.user = u /\ x.month = m /\ x.product = p}})

\* the bucket a number of days belongs to
BucketOfDays(d) == IF d = 0 THEN "0" ELSE IF d <= 10 THEN "1-10" ELSE ">10"

\* the users (NULL for a dispatch without a user id) of the rows of camp in
\* month m and product p
UsersOf(m, p) == {c.user : c \in {x \in DOMAIN Table("camp") : x.month = m /\ x.product = p}}

\* a dispatch without a user id has no activity
DaysOfUser(u, m, p) == IF u = NULL THEN 0 ELSE DirectDays(u, m, p)

\* k / n * 100 rounded to one decimal, in tenths
PctOf(k, n) == (2000 * k + n) \div (2 * n)

\* C1: when a build has failed, the Fact Store published by the last
\* successful build is still the file OUT_DB, unchanged.
C1_FailedBuildKeepsPublishedStore ==
    (pc = "failed" /\ published.exists) => out_db = published

\* C2: while a build runs, a reader opening OUT_DB finds a store holding
\* exactly the output tables (the previous build's or the new build's), never
\* a missing store, a partial one, or one with intermediate tables.
C2_ReaderSeesCompleteStore ==
    (Running /\ published.exists) =>
        /\ out_db.exists
        /\ DOMAIN out_db.tables = OutputTables

\* C3: in every row of campaign_perf the three percentages are numbers and
\* inactive_pct + active_pct + high_pct is 100.0 within 0.2.
C3_SegmentationSumsTo100 ==
    HasTable("campaign_perf") =>
        \A r \in DOMAIN Table("campaign_perf") :
            /\ IsNum(r.inactive_pct) /\ IsNum(r.active_pct) /\ IsNum(r.high_pct)
            /\ r.inactive_pct[1] + r.active_pct[1] + r.high_pct[1] >= 998
            /\ r.inactive_pct[1] + r.active_pct[1] + r.high_pct[1] <= 1002

\* C3 witness: a campaign whose three rows fall in the three buckets, each
\* percentage 33.3 and the sum 99.9
C3_Witness ==
    /\ HasTable("campaign_perf")
    /\ \E r \in DOMAIN Table("campaign_perf") :
         /\ r.inactive_pct = Val(333)
         /\ r.active_pct = Val(333)
         /\ r.high_pct = Val(333)

\* C4: every row of monthly_metrics and of funnel_by_product has
\* delivered <= sent and a delivery_rate within 0..100; a row of
\* funnel_by_product also has clicked <= sent and a click_rate within 0..100.
C4_RateBounds ==
    /\ HasTable("monthly_metrics") =>
         \A r \in DOMAIN Table("monthly_metrics") :
            /\ r.delivered <= r.sent
            /\ IsNum(r.delivery_rate)
            /\ r.delivery_rate[1] >= 0 /\ r.delivery_rate[1] <= 1000
    /\ HasTable("funnel_by_product") =>
         \A r \in DOMAIN Table("funnel_by_product") :
            /\ r.delivered <= r.sent
            /\ r.clicked <= r.sent
            /\ IsNum(r.delivery_rate)
            /\ r.delivery_rate[1] >= 0 /\ r.delivery_rate[1] <= 1000
            /\ IsNum(r.click_rate)
            /\ r.click_rate[1] >= 0 /\ r.click_rate[1] <= 1000

\* C5: a dispatch whose business_id has no entry in the map has product
\* "Unknown" in camp and is counted in its month's row of monthly_metrics;
\* no row of funnel_by_product or of campaign_perf has product "Unknown".
C5_UnknownExcluded ==
    /\ (HasTable("camp_raw") /\ HasTable("product_map") /\ HasTable("camp")) =>
         CountRows(Where(Table("camp"), {c \in DOMAIN Table("camp") : c.product = "Unknown"}))
           = CountRows(Where(Table("camp_raw"), {cr \in DOMAIN Table("camp_raw") :
               \A p \in DOMAIN Table("product_map") : p.business_id # cr.business_id}))
    /\ (HasTable("camp") /\ HasTable("monthly_metrics")) =>
         \A c \in DOMAIN Table("camp") :
            \E r \in DOMAIN Table("monthly_metrics") :
               /\ r.month = c.month
               /\ r.sent = CountRows(Where(Table("camp"),
                                     {x \in DOMAIN Table("camp") : x.month = c.month}))
    /\ HasTable("funnel_by_product") =>
         \A r \in DOMAIN Table("funnel_by_product") : r.product # "Unknown"
    /\ HasTable("campaign_perf") =>
         \A r \in DOMAIN Table("campaign_perf") : r.product # "Unknown"

\* the counter with NULL read as 0
ZeroIfNull(c) == IF c = NULLINT THEN 0 ELSE c[1]

\* C6: the clicks of every dispatch event in camp is button_responses +
\* link_clicks with a NULL counter read as 0, never NULL.
C6_NullSafeClicks ==
    (HasTable("camp_raw") /\ HasTable("camp")) =>
        BagOfAll(LAMBDA c : c.clicks, Table("camp"))
          = BagOfAll(LAMBDA cr : Val(ZeroIfNull(cr.button_responses)
                                       + ZeroIfNull(cr.link_clicks)),
                     Table("camp_raw"))

\* C7: in nudge_vs_activity the row of a (month, product, bucket) counts the
\* nudged users of that month and product whose number of distinct activity
\* days there is in the bucket (0 -> '0', 1..10 -> '1-10', 11 or more ->
\* '>10'), a bucket without users has no row, and the users of the buckets of
\* a (month, product) sum to its number of nudged users.
C7_NudgeBuckets ==
    (HasTable("camp") /\ HasTable("act") /\ HasTable("nudge_vs_activity")) =>
        LET nva == Table("nudge_vs_activity")
            groups == {<<c.month, c.product>> : c \in DOMAIN Table("camp")}
            InBucket(g, b) == {u \in UsersOf(g[1], g[2]) :
                                  BucketOfDays(DaysOfUser(u, g[1], g[2])) = b}
            RowsOf(g, b) == {r \in DOMAIN nva : r.month = g[1] /\ r.product = g[2]
                                                 /\ r.active_bucket = b}
        IN  /\ \A r \in DOMAIN nva :
                 /\ nva[r] = 1
                 /\ <<r.month, r.product>> \in groups
                 /\ r.active_bucket \in {"0", "1-10", ">10"}
            /\ \A g \in groups : \A b \in {"0", "1-10", ">10"} :
                 IF InBucket(g, b) = {} THEN RowsOf(g, b) = {}
                 ELSE /\ Cardinality(RowsOf(g, b)) = 1
                      /\ \A r \in RowsOf(g, b) : r.users = Cardinality(InBucket(g, b))
            /\ \A g \in groups :
                 SumBag(BagOfAll(LAMBDA r : r.users,
                                 Where(nva, {r \in DOMAIN nva : <<r.month, r.product>> = g})))
                   = Cardinality(UsersOf(g[1], g[2]))

\* C7 witness: a month and product whose nudged users are one with exactly 10
\* activity days, one with 11 and one with none, each in its own bucket
C7_Witness ==
    /\ HasTable("camp") /\ HasTable("act") /\ HasTable("nudge_vs_activity")
    /\ \E g \in {<<c.month, c.product>> : c \in DOMAIN Table("camp")} :
         /\ \E u \in UsersOf(g[1], g[2]) : u # NULL /\ DirectDays(u, g[1], g[2]) = 10
         /\ \E u \in UsersOf(g[1], g[2]) : u # NULL /\ DirectDays(u, g[1], g[2]) = 11
         /\ \A b \in {"0", "1-10", ">10"} :
              \E r \in DOMAIN Table("nudge_vs_activity") :
                 /\ <<r.month, r.product>> = g
                 /\ r.active_bucket = b
                 /\ r.users = 1

\* C8: when every dispatch has a user id, sent of a month in monthly_metrics
\* is the number of distinct (user, dispatch day) pairs of the month's
\* dispatch events, and delivered the number of those pairs with a delivered
\* event.
C8_SentCountsUserDays ==
    (HasTable("camp_raw") /\ HasTable("monthly_metrics")
       /\ \A cr \in DOMAIN Table("camp_raw") : cr.user # NULL) =>
        \A r \in DOMAIN Table("monthly_metrics") :
            LET ev == {cr \in DOMAIN Table("camp_raw") :
                          DateTruncMonth(cr.dispatched_at) = r.month}
            IN  /\ r.sent = Cardinality({<<cr.user, cr.dispatched_at>> : cr \in ev})
                /\ r.delivered = Cardinality({<<cr.user, cr.dispatched_at>> :
                                               cr \in {x \in ev : x.delivered # NULL}})

\* C9: with the dispatch and activity shards present and the map file
\* absent, the build does not fail.
C9_MissingMapNotFatal ==
    (raw_camp.exists /\ raw_act.exists /\ ~map_file.exists) => pc # "failed"

\* C10: in every row of campaign_perf whose dispatches all have a user id,
\* each percentage is the number of distinct users of the campaign in the
\* bucket divided by the row's sent, times 100, rounded to one decimal.
C10_PctOfDistinctUsers ==
    (HasTable("camp") /\ HasTable("act") /\ HasTable("campaign_perf")) =>
        \A r \in DOMAIN Table("campaign_perf") :
            LET users == {c.user : c \in {x \in DOMAIN Table("camp") :
                             /\ x.month = r.month
                             /\ x.product = r.product
                             /\ x.sendout_name = r.sendout_name}}
                In(b) == {u \in users :
                             BucketOfDays(DirectDays(u, r.month, r.product)) = b}
            IN  NULL \notin users =>
                  /\ r.sent = Cardinality(users)
                  /\ r.inactive_pct = Val(PctOf(Cardinality(In("0")), r.sent))
                  /\ r.active_pct = Val(PctOf(Cardinality(In("1-10")), r.sent))
                  /\ r.high_pct = Val(PctOf(Cardinality(In(">10")), r.sent))

====
